---------------------------- MODULE Spec2Model ----------------------------
(***************************************************************************)
(* A model of the salon transaction system of src/streamlit_app.py: the    *)
(* cashier table, the transaction table and the activity log held by the   *)
(* remote store, the per-session login state, the page handlers of the     *)
(* Streamlit script, and the ttl=60 memoisation of the transaction query.  *)
(*                                                                         *)
(* Text that the code strips or splits is a sequence of one-character      *)
(* strings, so that str.strip() and str.split() are computed.  Every call  *)
(* to the store takes a parameter ok: FALSE is the call raising.           *)
(***************************************************************************)
EXTENDS Integers, Sequences, FiniteSets, TLC

\* ------------------------------------------------------------------ bounds
MaxCashiers == 2      \* rows of the cashier table
MaxLogs == 1          \* rows of the activity log
MaxTxns == 2          \* rows of the transaction table

Sessions == {"s1", "s2"}     \* browser sessions, one script thread each

\* ------------------------------------------------------------------- text
Whitespace == {" "}

RECURSIVE lstrip(_)
lstrip(s) ==
    IF s # <<>> /\ Head(s) \in Whitespace THEN lstrip(Tail(s)) ELSE s

RECURSIVE rstrip(_)
rstrip(s) ==
    IF s # <<>> /\ s[Len(s)] \in Whitespace
    THEN rstrip(SubSeq(s, 1, Len(s) - 1)) ELSE s

\* str.strip(): leading and trailing whitespace removed
strip(s) == rstrip(lstrip(s))

RECURSIVE splitFrom(_, _, _)
splitFrom(s, word, acc) ==
    IF s = <<>> THEN (IF word = <<>> THEN acc ELSE Append(acc, word))
    ELSE IF Head(s) \in Whitespace
         THEN splitFrom(Tail(s), <<>>,
                        IF word = <<>> THEN acc ELSE Append(acc, word))
         ELSE splitFrom(Tail(s), Append(word, Head(s)), acc)

\* str.split() without arguments: the words between runs of whitespace
split(s) == splitFrom(s, <<>>, <<>>)

\* Python's truth value of a str
truthy(s) == s # <<>>

\* the value None (session_state.cashier before login), distinct from every text
None == <<"<None>">>

Admin == <<"a", "d", "m", "i", "n">>
Bob == <<"b", "o", "b">>

\* ------------------------------------------------------- credential store
\* hashlib.sha256(pw.encode()).hexdigest(): the digest as a term over the password
hash_password(pw) == <<"sha256", pw>>

VARIABLES
    cashiers,        \* table "cashiers": set of rows [username, password, active]
    transactions,    \* table "transactions": rows in insertion order
    activity_logs,   \* table "activity_logs": rows in insertion order
    logged_in,       \* st.session_state.logged_in, per session
    cashier,         \* st.session_state.cashier, per session
    ui,              \* what the last script run did and showed
    cache,           \* the slot of @st.cache_data(ttl=60): None or an entry
    lock,            \* the session computing the slot's value, or "free"
    pc,              \* per session: where its call of get_transactions_df is
    page,            \* per session: the page that made the call
    inflight,        \* per session: the value its call computed, not yet stored
    view,            \* per session: the DataFrame its last call returned
    own,             \* per session: id of its insert not yet followed by a get
    invalidated,     \* no select has run since the last clear()
    needsFetch       \* per session: its call began after a clear() no select followed

storeVars == <<cashiers, transactions, activity_logs>>
sessionVars == <<logged_in, cashier>>
cacheVars == <<cache, lock, pc, page, inflight, view, own, invalidated, needsFetch>>
vars == <<cashiers, transactions, activity_logs, logged_in, cashier, ui,
          cache, lock, pc, page, inflight, view, own, invalidated, needsFetch>>

\* a script run's record: the session, the handler, its inputs, the store calls
\* that raised, the messages shown
Shown(s, handler, target, arg, raised, msgs) ==
    [session |-> s, handler |-> handler, target |-> target, arg |-> arg,
     raised |-> raised, msgs |-> msgs]

\* the empty slot of the cache
NoEntry == [full |-> FALSE, df |-> <<>>, msgs |-> {}, age |-> 0]

\* the session's script is not inside get_transactions_df
Idle(s) == pc[s] = "idle"

\* login_user without the active filter
login_user_any_status(username, password) ==
    {r \in cashiers : /\ r.username = username
                      /\ r.password = hash_password(password)} # {}

\* the select of login_user: rows matching username, password digest and active
login_user(username, password) ==
    {r \in cashiers : /\ r.username = username
                      /\ r.password = hash_password(password)
                      /\ r.active = TRUE} # {}

Init ==
    /\ cashiers = {[username |-> Admin, password |-> hash_password("pw1"),
                    active |-> TRUE]}
    /\ transactions = <<>>
    /\ activity_logs = <<>>
    /\ logged_in = [s \in Sessions |-> FALSE]
    /\ cashier = [s \in Sessions |-> None]
    /\ ui = Shown("s1", "start", None, "", {}, {})
    /\ cache = NoEntry
    /\ lock = "free"
    /\ pc = [s \in Sessions |-> "idle"]
    /\ page = [s \in Sessions |-> "Add Transaction"]
    /\ inflight = [s \in Sessions |-> <<>>]
    /\ view = [s \in Sessions |-> <<>>]
    /\ own = [s \in Sessions |-> 0]
    /\ invalidated = FALSE
    /\ needsFetch = [s \in Sessions |-> FALSE]

\* the Login button of the login screen
Login(s, username, password, ok) ==
    /\ ~logged_in[s]
    /\ Idle(s)
    /\ IF ~ok
       THEN /\ ui' = Shown(s, "Login", username, password, {"login_user"},
                           {"uncaught exception"})
            /\ UNCHANGED <<logged_in, cashier>>
       ELSE IF login_user(username, password)
       THEN /\ logged_in' = [logged_in EXCEPT ![s] = TRUE]
            /\ cashier' = [cashier EXCEPT ![s] = username]
            /\ ui' = Shown(s, "Login", username, password, {}, {"Welcome"})
       ELSE /\ ui' = Shown(s, "Login", username, password, {},
                           {"Invalid username/password or inactive account."})
            /\ UNCHANGED <<logged_in, cashier>>
    /\ UNCHANGED <<storeVars, cacheVars>>

\* the Logout entry of the menu
Logout(s) ==
    /\ logged_in[s]
    /\ Idle(s)
    /\ logged_in' = [logged_in EXCEPT ![s] = FALSE]
    /\ cashier' = [cashier EXCEPT ![s] = None]
    /\ ui' = Shown(s, "Logout", None, "", {}, {"Logged out."})
    /\ UNCHANGED <<storeVars, cacheVars>>

\* ----------------------------------------------------- cashier management
\* a role check passed by every logged-in cashier
IsLoggedInCashier(c) == c # None

\* the role check: st.session_state.cashier == "admin"
IsAdmin(c) == c = Admin

\* the entries option_menu offers the session
MenuOptions(s) ==
    {"Add Transaction", "View Transactions", "Search Customer", "Reports & CSV",
     "Logout"} \cup (IF IsAdmin(cashier[s]) THEN {"Cashier Management"} ELSE {})

\* the script reaches the Cashier Management branch and passes its guard
InCashierManagement(s) ==
    /\ logged_in[s]
    /\ Idle(s)
    /\ "Cashier Management" \in MenuOptions(s)
    /\ IsAdmin(cashier[s])

\* log_activity without its try/except
log_activity_propagates(ok) == ~ok

\* log_activity swallows every exception of its insert: it never raises
log_activity_raises(ok) == FALSE

\* the rows of activity_logs after log_activity(username, action, details)
log_activity(username, action, details, ok) ==
    IF ok
    THEN Append(activity_logs,
                [cashier_username |-> username, action |-> action,
                 details |-> details])
    ELSE activity_logs

\* what log_activity shows
log_activity_msgs(ok) == IF ok THEN {} ELSE {"Failed to log activity"}

\* update({"active": a}).eq("username", u): every matching row, none when no row matches
update_active(u, a) ==
    {IF r.username = u THEN [r EXCEPT !.active = a] ELSE r : r \in cashiers}

\* update({"password": d}).eq("username", u)
update_password(u, d) ==
    {IF r.username = u THEN [r EXCEPT !.password = d] ELSE r : r \in cashiers}

\* tab 1, the Save Cashier button; fault names the store call of this run that
\* raises ("none": no call raises)
AddCashier(s, new_username, new_password, confirm_password, fault) ==
    /\ InCashierManagement(s)
    /\ Cardinality(cashiers) < MaxCashiers
    /\ Len(activity_logs) < MaxLogs
    /\ fault \in {"none", "insert", "log_activity"}
    /\ UNCHANGED <<transactions, sessionVars, cacheVars>>
    /\ IF ~truthy(new_username) \/ new_password = "" \/ confirm_password = ""
       THEN /\ ui' = Shown(s, "Add Cashier", new_username, new_password, {},
                           {"Please fill in all required fields."})
            /\ UNCHANGED <<cashiers, activity_logs>>
       ELSE IF new_password # confirm_password
       THEN /\ ui' = Shown(s, "Add Cashier", new_username, new_password, {},
                           {"Passwords do not match."})
            /\ UNCHANGED <<cashiers, activity_logs>>
       ELSE IF fault = "insert"
       THEN /\ ui' = Shown(s, "Add Cashier", new_username, new_password,
                           {"insert"}, {"Error adding cashier"})
            /\ UNCHANGED <<cashiers, activity_logs>>
       ELSE /\ cashiers' = cashiers \cup
                  {[username |-> strip(new_username),
                    password |-> hash_password(new_password),
                    active |-> TRUE]}
            /\ activity_logs' = log_activity(cashier[s], "Add Cashier",
                                             new_username, fault # "log_activity")
            /\ ui' = Shown(s, "Add Cashier", new_username, new_password,
                           {fault} \ {"none"},
                           IF log_activity_raises(fault # "log_activity")
                           THEN {"Error adding cashier"}
                           ELSE log_activity_msgs(fault # "log_activity")
                                \cup {"cashier_success"})

\* the usernames the selectbox of tab 2 offers: those of the rows just fetched
SelectableUsers == {r.username : r \in cashiers}

\* tab 2, the Update Status button
UpdateStatus(s, selected_user, toggle_status, fault) ==
    /\ InCashierManagement(s)
    /\ selected_user \in SelectableUsers
    /\ Len(activity_logs) < MaxLogs
    /\ fault \in {"none", "select", "update", "log_activity"}
    /\ UNCHANGED <<transactions, sessionVars, cacheVars>>
    /\ IF fault = "select"
       THEN /\ ui' = Shown(s, "Update Status", None, "", {"select"},
                           {"Error fetching cashiers"})
            /\ UNCHANGED <<cashiers, activity_logs>>
       ELSE IF fault = "update"
       THEN /\ ui' = Shown(s, "Update Status", selected_user, toggle_status,
                           {"update"}, {"Error updating status"})
            /\ UNCHANGED <<cashiers, activity_logs>>
       ELSE /\ cashiers' = update_active(selected_user, toggle_status = "Active")
            /\ activity_logs' = log_activity(cashier[s], "Update Status",
                                             selected_user, fault # "log_activity")
            /\ ui' = Shown(s, "Update Status", selected_user, toggle_status,
                           {fault} \ {"none"},
                           IF log_activity_raises(fault # "log_activity")
                           THEN {"Error updating status"}
                           ELSE log_activity_msgs(fault # "log_activity")
                                \cup {"status updated"})

\* tab 2, the Save New Password button
ResetPassword(s, selected_user, new_pass, confirm_pass, fault) ==
    /\ InCashierManagement(s)
    /\ selected_user \in SelectableUsers
    /\ Len(activity_logs) < MaxLogs
    /\ fault \in {"none", "select", "update", "log_activity"}
    /\ UNCHANGED <<transactions, sessionVars, cacheVars>>
    /\ IF fault = "select"
       THEN /\ ui' = Shown(s, "Reset Password", None, "", {"select"},
                           {"Error fetching cashiers"})
            /\ UNCHANGED <<cashiers, activity_logs>>
       ELSE IF new_pass = "" \/ confirm_pass = ""
       THEN /\ ui' = Shown(s, "Reset Password", selected_user, new_pass, {},
                           {"Please enter and confirm the new password."})
            /\ UNCHANGED <<cashiers, activity_logs>>
       ELSE IF new_pass # confirm_pass
       THEN /\ ui' = Shown(s, "Reset Password", selected_user, new_pass, {},
                           {"Passwords do not match."})
            /\ UNCHANGED <<cashiers, activity_logs>>
       ELSE IF fault = "update"
       THEN /\ ui' = Shown(s, "Reset Password", selected_user, new_pass,
                           {"update"}, {"Error updating password"})
            /\ UNCHANGED <<cashiers, activity_logs>>
       ELSE /\ cashiers' = update_password(selected_user, hash_password(new_pass))
            /\ activity_logs' = log_activity(cashier[s], "Reset Password",
                                             selected_user, fault # "log_activity")
            /\ ui' = Shown(s, "Reset Password", selected_user, new_pass,
                           {fault} \ {"none"},
                           IF log_activity_raises(fault # "log_activity")
                           THEN {"Error updating password"}
                           ELSE log_activity_msgs(fault # "log_activity")
                                \cup {"pass_success"})

\* tab 3: the listing of the activity log
ActivityLogs(s, ok) ==
    /\ InCashierManagement(s)
    /\ ui' = Shown(s, "Activity Logs", None, "",
                   IF ok THEN {} ELSE {"select"},
                   IF ~ok THEN {"Error fetching logs"}
                   ELSE IF activity_logs = <<>> THEN {"No activity logs yet."}
                   ELSE {"logs listed"})
    /\ UNCHANGED <<storeVars, sessionVars, cacheVars>>

\* ------------------------------------------------------------ transactions
\* the options of the Technician Type radio; "U+..." stands for one emoji character
OptNails == <<"N", "a", "i", "l", "s", " ", "U+1F485">>
OptLashes == <<"L", "a", "s", "h", "e", "s", " ", "U+1F441">>
OptOthers == <<"O", "t", "h", "e", "r", "s">>
TechnicianTypeOptions == {OptNails, OptLashes, OptOthers}

\* the option as shown, not split
technician_type_label(option) == option

\* "get text only": technician_type.split()[0]
technician_type_text(option) == split(option)[1]

\* the form's test before it builds the payload
form_complete(customer, service, technician_name, amount) ==
    truthy(customer) /\ truthy(service) /\ truthy(technician_name) /\ amount > 0

\* a payload whose cashier_username is read from the cashier's row while it is active
payload_active_cashier(s, customer, service, technician_name, technician_type, service_date, amount) ==
    [customer_name |-> strip(customer),
     service |-> strip(service),
     technician_name |-> strip(technician_name),
     technician_type |-> technician_type_text(technician_type),
     date_of_service |-> service_date,
     amount |-> amount,
     cashier_username |-> IF \E r \in cashiers : r.username = cashier[s] /\ r.active
                          THEN cashier[s] ELSE None]

\* the payload of the Add Transaction form (addons, optional text, is left out)
payload(s, customer, service, technician_name, technician_type, service_date, amount) ==
    [customer_name |-> strip(customer),
     service |-> strip(service),
     technician_name |-> strip(technician_name),
     technician_type |-> technician_type_text(technician_type),
     date_of_service |-> service_date,
     amount |-> amount,
     cashier_username |-> cashier[s]]

\* insert_transaction: the store appends the row and assigns its id
insert_transaction(row) ==
    Append(transactions,
           [id |-> Len(transactions) + 1,
            customer_name |-> row.customer_name,
            service |-> row.service,
            technician_name |-> row.technician_name,
            technician_type |-> row.technician_type,
            date_of_service |-> row.date_of_service,
            amount |-> row.amount,
            cashier_username |-> row.cashier_username])

\* the Save Transaction button of the Add Transaction form
AddTransaction(s, customer, service, technician_name, technician_type, service_date, amount, ok) ==
    /\ logged_in[s]
    /\ Idle(s)
    /\ "Add Transaction" \in MenuOptions(s)
    /\ technician_type \in TechnicianTypeOptions
    /\ amount >= 0
    /\ Len(transactions) < MaxTxns
    /\ UNCHANGED <<cashiers, activity_logs, sessionVars>>
    /\ UNCHANGED <<lock, pc, page, inflight, view, needsFetch>>
    /\ IF ~form_complete(customer, service, technician_name, amount)
       THEN /\ ui' = Shown(s, "Add Transaction", customer, amount, {},
                           {"Please complete all required fields and amount > 0."})
            /\ UNCHANGED <<transactions, cache, own, invalidated>>
       ELSE IF ~ok
       THEN /\ ui' = Shown(s, "Add Transaction", customer, amount, {"insert"},
                           {"Error saving transaction"})
            /\ UNCHANGED <<transactions, cache, own, invalidated>>
       ELSE /\ transactions' =
                  insert_transaction(payload(s, customer, service, technician_name,
                                             technician_type, service_date, amount))
            \* refresh_transactions_cache(): get_transactions_df.clear()
            /\ cache' = NoEntry
            /\ invalidated' = TRUE
            /\ own' = [own EXCEPT ![s] = Len(transactions) + 1]
            /\ ui' = Shown(s, "Add Transaction", customer, amount, {},
                           {"Transaction saved successfully!"})

\* ------------------------------------------------------------------ cache
\* ttl=60 of @st.cache_data
TTL == 60

\* an entry written age seconds ago is no longer served
Expired(age) == ~(age < TTL)

\* a read of the slot that serves only values computed without an error
CacheHit_success_only == cache.full /\ ~Expired(cache.age) /\ cache.msgs = {}

\* a read of the slot finds a value it may serve
CacheHit == cache.full /\ ~Expired(cache.age)

\* the rows in an order the select's order("date_of_service", desc=True) allows:
\* rows of one date come in any order
Orderings(rows) ==
    {[i \in 1..Len(rows) |-> rows[f[i]]] :
        f \in {g \in [1..Len(rows) -> 1..Len(rows)] :
                 /\ \A i, j \in 1..Len(rows) : i # j => g[i] # g[j]
                 /\ \A i, j \in 1..Len(rows) :
                        i < j => rows[g[i]].date_of_service >= rows[g[j]].date_of_service}}

\* the body of get_transactions_df: the DataFrame of the rows, or, when the select
\* raises, the error shown and an empty DataFrame
get_transactions_df(rows, ok) ==
    IF ok THEN [df |-> rows, msgs |-> {}]
    ELSE [df |-> <<>>, msgs |-> {"Database error"}]

\* ---------------------------------------------------------------- reports
\* code points of the characters technician names are written with
CodePoint(c) ==
    CASE c = "L" -> 76 [] c = "M" -> 77 [] c = "i" -> 105 [] c = "o" -> 111
      [] c = "z" -> 122 [] OTHER -> 32

\* Python's str order: by code point, a prefix before its extensions
RECURSIVE StrLess(_, _)
StrLess(a, b) ==
    IF b = <<>> THEN FALSE
    ELSE IF a = <<>> THEN TRUE
    ELSE IF CodePoint(Head(a)) # CodePoint(Head(b))
         THEN CodePoint(Head(a)) < CodePoint(Head(b))
    ELSE StrLess(Tail(a), Tail(b))

RECURSIVE SumAmount(_)
SumAmount(df) == IF df = <<>> THEN 0 ELSE Head(df).amount + SumAmount(Tail(df))

\* the keys of a groupby, sorted ascending (groupby's default sort=True)
RECURSIVE SortedKeys(_)
SortedKeys(keys) ==
    IF keys = {} THEN <<>>
    ELSE LET k == CHOOSE x \in keys : \A y \in keys \ {x} : StrLess(x, y)
         IN <<k>> \o SortedKeys(keys \ {k})

\* today_df.groupby("technician_name")["amount"].sum(): <<key, sum>> by sorted key
groupby_sum(df) ==
    LET keys == SortedKeys({df[i].technician_name : i \in 1..Len(df)})
    IN [i \in 1..Len(keys) |->
           <<keys[i],
             SumAmount(SelectSeq(df, LAMBDA r : r.technician_name = keys[i]))>>]

\* the label of the last row holding the maximum
idxmax_last(series) ==
    LET i == CHOOSE k \in 1..Len(series) :
                 /\ \A j \in 1..Len(series) : series[j][2] <= series[k][2]
                 /\ \A j \in (k + 1)..Len(series) : series[j][2] < series[k][2]
        IN series[i][1]

\* Series.idxmax(): the label of the first row holding the maximum
idxmax(series) ==
    LET i == CHOOSE k \in 1..Len(series) :
                 /\ \A j \in 1..Len(series) : series[j][2] <= series[k][2]
                 /\ \A j \in 1..(k - 1) : series[j][2] < series[k][2]
        IN series[i][1]

\* the KPI cards of Reports & CSV
dailyKPIs(df, today) ==
    LET today_df == SelectSeq(df, LAMBDA r : r.date_of_service = today)
    IN [totalSales |-> SumAmount(today_df),
        transactionCount |-> Len(today_df),
        topTechnician |-> IF today_df # <<>> THEN idxmax(groupby_sum(today_df))
                          ELSE None]

\* ------------------------------------------------------------------ pages
\* the pages that call get_transactions_df and are modelled
Pages == {"View Transactions", "Reports & CSV"}

\* what a page shows for the DataFrame df it got
page_msgs(pg, df) ==
    IF df # <<>> THEN {"shown"}
    ELSE IF pg = "Reports & CSV" THEN {"No transactions available."}
    ELSE {"No transactions yet."}

\* how a call of get_transactions_df went: whether its first read of the slot found
\* an entry and of which age, whether the call ran the select, and whether it began
\* after a clear() and returned with no select run since
Found(full, age, fetched, stale) ==
    [full |-> full, age |-> age, fetched |-> fetched, stale |-> stale]

\* get_transactions_df returns r to the page, which renders; arg holds the day the
\* page takes as today and the KPI cards it draws (none for an empty DataFrame)
Return(s, pg, r, found, raised, today) ==
    /\ view' = [view EXCEPT ![s] = r.df]
    /\ own' = [own EXCEPT ![s] = 0]
    /\ ui' = Shown(s, pg, found,
                   [day |-> today,
                    cards |-> IF pg = "Reports & CSV" /\ r.df # <<>>
                              THEN {dailyKPIs(r.df, today)} ELSE {}],
                   raised, r.msgs \cup page_msgs(pg, r.df))

\* a page calls get_transactions_df: the first read of the slot
OpenPage(s, pg, today) ==
    /\ logged_in[s]
    /\ Idle(s)
    /\ pg \in Pages \cap MenuOptions(s)
    /\ UNCHANGED <<storeVars, sessionVars, cache, lock, inflight, invalidated>>
    /\ IF CacheHit
       THEN /\ Return(s, pg, cache, Found(TRUE, cache.age, FALSE, invalidated),
                      {}, today)
            /\ UNCHANGED <<pc, page, needsFetch>>
       ELSE /\ pc' = [pc EXCEPT ![s] = "waiting"]
            /\ page' = [page EXCEPT ![s] = pg]
            /\ needsFetch' = [needsFetch EXCEPT ![s] = invalidated]
            /\ UNCHANGED <<ui, view, own>>

\* the call takes the compute lock and reads the slot again; on a miss it runs the
\* function: the select executes now, the value is stored by StoreValue
TakeLock(s, ok, today) ==
    /\ pc[s] = "waiting"
    /\ lock = "free"
    /\ UNCHANGED <<storeVars, sessionVars, cache, page>>
    /\ IF CacheHit
       THEN /\ Return(s, page[s], cache, Found(FALSE, 0, FALSE, needsFetch[s]),
                      {}, today)
            /\ pc' = [pc EXCEPT ![s] = "idle"]
            /\ needsFetch' = [needsFetch EXCEPT ![s] = FALSE]
            /\ UNCHANGED <<lock, inflight, invalidated>>
       ELSE /\ \E rows \in Orderings(transactions) :
                  inflight' = [inflight EXCEPT ![s] = get_transactions_df(rows, ok)]
            /\ lock' = s
            /\ pc' = [pc EXCEPT ![s] = "computing"]
            /\ invalidated' = FALSE
            /\ needsFetch' = [t \in Sessions |-> FALSE]
            /\ UNCHANGED <<ui, view, own>>

\* the computed value is written to the slot, the lock released, the value returned
StoreValue(s, today) ==
    /\ pc[s] = "computing"
    /\ cache' = [full |-> TRUE, df |-> inflight[s].df, msgs |-> inflight[s].msgs,
                 age |-> 0]
    /\ lock' = "free"
    /\ pc' = [pc EXCEPT ![s] = "idle"]
    /\ inflight' = [inflight EXCEPT ![s] = <<>>]
    /\ Return(s, page[s], inflight[s], Found(FALSE, 0, TRUE, needsFetch[s]),
              IF inflight[s].msgs = {} THEN {} ELSE {"select"}, today)
    /\ UNCHANGED <<storeVars, sessionVars, page, invalidated, needsFetch>>

\* d seconds pass
Tick(d) ==
    /\ cache.full
    /\ cache.age < TTL
    /\ cache' = [cache EXCEPT !.age = IF cache.age + d < TTL THEN cache.age + d ELSE TTL]
    /\ UNCHANGED <<storeVars, sessionVars, ui, lock, pc, page, inflight, view, own,
                   invalidated, needsFetch>>

\* ------------------------------------------------------------------ inputs
Usernames == {Admin, Bob}
NewUsernames == {<<" ">> \o Bob, <<>>}
Passwords == {"pw1", "pw2"}
FormPasswords == Passwords \cup {""}
\* a password and its confirmation: equal, or the first password against each other
PasswordPairs ==
    {f \in FormPasswords \X FormPasswords : f[1] = f[2] \/ f[1] = "pw1"}
Liz == <<"L", "i", "z">>
Mo == <<"M", "o">>
Ana == <<"A", "n", "a">>
Gel == <<"G", "e", "l">>
Days == {20240501, 20240502}
Today == CHOOSE d \in Days : \A e \in Days : e <= d

\* logins, logout and cashier management
Next ==
    \E s \in Sessions :
        \/ \E u \in Usernames, p \in Passwords, ok \in BOOLEAN : Login(s, u, p, ok)
        \/ Logout(s)
        \/ \E u \in NewUsernames, f \in PasswordPairs,
              fault \in {"none", "insert", "log_activity"} :
              AddCashier(s, u, f[1], f[2], fault)
        \/ \E u \in Usernames, t \in {"Active", "Inactive"},
              fault \in {"none", "select", "update", "log_activity"} :
              UpdateStatus(s, u, t, fault)
        \/ \E u \in Usernames, f \in PasswordPairs,
              fault \in {"none", "select", "update", "log_activity"} :
              ResetPassword(s, u, f[1], f[2], fault)
        \/ \E ok \in BOOLEAN : ActivityLogs(s, ok)

Spec == Init /\ [][Next]_vars

\* the Add Transaction form: each text field empty, blank or padded, at most one
\* of the three not a padded name; every option; amount zero or positive
FormTexts == {<<>>, <<" ">>, <<" ">> \o Ana \o <<" ">>}
FormTriples ==
    {f \in FormTexts \X FormTexts \X FormTexts :
        Cardinality({i \in 1..3 : strip(f[i]) = <<>>}) <= 1}

NextTxn ==
    \E s \in Sessions :
        \/ \E ok \in BOOLEAN : Login(s, Admin, "pw1", ok)
        \/ \E f \in FormTriples, ty \in TechnicianTypeOptions,
              a \in {0, 50}, ok \in BOOLEAN :
              AddTransaction(s, f[1], f[2], f[3], ty, Today, a, ok)

SpecTxn == Init /\ [][NextTxn]_vars

\* the cached query under two sessions
NextCache ==
    \/ \E s \in Sessions :
        \/ Login(s, Admin, "pw1", TRUE)
        \/ \E ok \in BOOLEAN : AddTransaction(s, Ana, Gel, Liz, OptNails, Today, 50, ok)
        \/ OpenPage(s, "View Transactions", Today)
        \/ \E ok \in BOOLEAN : TakeLock(s, ok, Today)
        \/ StoreValue(s, Today)
    \/ \E d \in {TTL \div 2 - 1, TTL \div 2} : Tick(d)

SpecCache == Init /\ [][NextCache]_vars

\* the KPI cards over the transactions one session records
NextKPI ==
    \/ Login("s1", Admin, "pw1", TRUE)
    \/ \E n \in {Liz, Mo}, d \in Days, a \in {50, 100} :
          AddTransaction("s1", Ana, Gel, n, OptNails, d, a, TRUE)
    \/ \E d \in Days : OpenPage("s1", "Reports & CSV", d)
    \/ \E d \in Days : TakeLock("s1", TRUE, d)
    \/ \E d \in Days : StoreValue("s1", d)

SpecKPI == Init /\ [][NextKPI]_vars

\* sessions that stay logged in while the admin changes cashier rows
NextSession ==
    \E s \in Sessions :
        \/ \E u \in Usernames, p \in Passwords : Login(s, u, p, TRUE)
        \/ Logout(s)
        \/ \E fault \in {"none", "log_activity"} :
              AddCashier(s, <<" ">> \o Bob, "pw2", "pw2", fault)
        \/ \E u \in Usernames, fault \in {"none", "log_activity"} :
              UpdateStatus(s, u, "Inactive", fault)
        \/ \E u \in Usernames, fault \in {"none", "log_activity"} :
              ResetPassword(s, u, "pw1", "pw1", fault)
        \/ \E ok \in BOOLEAN :
              AddTransaction(s, Ana, Gel, Liz, OptNails, Today, 50, ok)

SpecSession == Init /\ [][NextSession]_vars

\* ------------------------------------------------------------------ claims
\* C1: a login succeeds if and only if the cashier table holds a row with the given
\* username, the digest of the given password and active = true; an unknown
\* username, a wrong password and an inactive row all end in the one failure
\* message and leave the session logged out.
C1_VerifyLogin ==
    (ui.handler = "Login" /\ ui.raised = {}) =>
        LET match == \E r \in cashiers : /\ r.username = ui.target
                                         /\ r.password = hash_password(ui.arg)
                                         /\ r.active
        IN /\ match <=> "Welcome" \in ui.msgs
           /\ match => logged_in[ui.session] /\ cashier[ui.session] = ui.target
           /\ ~match => /\ ~logged_in[ui.session]
                        /\ cashier[ui.session] = None
                        /\ ui.msgs = {"Invalid username/password or inactive account."}

\* C1's case: correct credentials of a deactivated cashier are refused
C1_Witness ==
    /\ ui.handler = "Login"
    /\ "Welcome" \notin ui.msgs
    /\ \E r \in cashiers : /\ r.username = ui.target
                           /\ r.password = hash_password(ui.arg)
                           /\ ~r.active

\* C2: every stored transaction has amount > 0 and a non-empty customer_name,
\* service and technician_name.
C2_StoredTransactionsValid ==
    \A i \in 1..Len(transactions) :
        /\ transactions[i].amount > 0
        /\ transactions[i].customer_name # <<>>
        /\ transactions[i].service # <<>>
        /\ transactions[i].technician_name # <<>>

\* the ids of the rows of a DataFrame
Ids(df) == {df[i].id : i \in 1..Len(df)}

\* C3, first half: a call whose first read finds an entry younger than the window
\* returns that entry's snapshot and runs no select.
C3_ServedWithinWindow ==
    (ui.handler \in Pages /\ ui.target.full /\ ui.target.age < 60) =>
        /\ ~ui.target.fetched
        /\ cache.full /\ view[ui.session] = cache.df

\* C3, second half: a call that begins after an invalidate returns only after a
\* select has run since that invalidate (calls that show a database error aside).
C3_FetchAfterInvalidate ==
    (ui.handler \in Pages /\ "Database error" \notin ui.msgs) => ~ui.target.stale

\* C3: both halves of the cache contract.
C3_CacheContract == C3_ServedWithinWindow /\ C3_FetchAfterInvalidate

\* C4: the first call of get_transactions_df a session completes after its own
\* successful insert returns a snapshot holding the inserted row, unless the call
\* shows a database error.
C4_OwnInsertVisible ==
    [][\A s \in Sessions :
          (own[s] # 0 /\ own'[s] = 0 /\ "Database error" \notin ui'.msgs)
             => own[s] \in Ids(view'[s])]_vars

ManagementHandlers == {"Add Cashier", "Update Status", "Reset Password", "Activity Logs"}

\* C5: a step that runs a Cashier-Management handler, changes the cashier table or
\* appends to the activity log is taken by a session logged in as exactly "admin".
C5_AdminOnly ==
    [][(\/ cashiers' # cashiers
        \/ activity_logs' # activity_logs
        \/ (ui' # ui /\ ui'.handler \in ManagementHandlers))
       => (logged_in[ui'.session] /\ cashier[ui'.session] = Admin)]_vars

\* C5's case: the admin resets a password while another session is logged in
\* as a cashier who is not the admin
C5_Witness ==
    /\ ui.handler = "Reset Password"
    /\ "pass_success" \in ui.msgs
    /\ cashier[ui.session] = Admin
    /\ \E t \in Sessions : logged_in[t] /\ cashier[t] = Bob

\* C6: when the activity-log append raises after a reset, a creation or a status
\* update was written, the write stays, the handler reports success (and the log
\* failure), and the new password logs an active cashier in.
C6_LogFailureIsolated ==
    "log_activity" \in ui.raised =>
        /\ "Failed to log activity" \in ui.msgs
        /\ ui.handler = "Reset Password" =>
              /\ "pass_success" \in ui.msgs
              /\ "Error updating password" \notin ui.msgs
              /\ \E r \in cashiers : r.username = ui.target
              /\ \A r \in cashiers :
                    r.username = ui.target => r.password = hash_password(ui.arg)
              /\ (\E r \in cashiers : r.username = ui.target /\ r.active)
                    => login_user(ui.target, ui.arg)
        /\ ui.handler = "Add Cashier" =>
              /\ "cashier_success" \in ui.msgs
              /\ "Error adding cashier" \notin ui.msgs
              /\ login_user(strip(ui.target), ui.arg)
        /\ ui.handler = "Update Status" =>
              /\ "status updated" \in ui.msgs
              /\ "Error updating status" \notin ui.msgs
              /\ \E r \in cashiers : r.username = ui.target
              /\ \A r \in cashiers :
                    r.username = ui.target => r.active = (ui.arg = "Active")

\* C6's case: a reset of an active cashier's password whose log append raised
C6_Witness ==
    /\ ui.handler = "Reset Password"
    /\ "log_activity" \in ui.raised
    /\ activity_logs = <<>>
    /\ \E r \in cashiers : r.username = ui.target /\ r.active

\* C7: Update Status and Reset Password report success only for a username that
\* has a row: the selectbox offers the usernames of the rows fetched in the same
\* run and no handler deletes a row, so no update is made that matches no row.
C7_UpdateTargetsExist ==
    (/\ ui.handler \in {"Update Status", "Reset Password"}
     /\ ui.msgs \cap {"status updated", "pass_success"} # {})
        => \E r \in cashiers : r.username = ui.target

\* the words of the spec's enumeration of technician_type
Nails == <<"N", "a", "i", "l", "s">>
Lashes == <<"L", "a", "s", "h", "e", "s">>
Other == <<"O", "t", "h", "e", "r">>
Others == <<"O", "t", "h", "e", "r", "s">>

\* C8 as stated: every stored technician_type is one of Nails, Lashes, Other.
C8_Enumerated ==
    \A i \in 1..Len(transactions) :
        transactions[i].technician_type \in {Nails, Lashes, Other}

\* C8 as amended: every stored technician_type is one of Nails, Lashes, Others,
\* the first word of the option chosen.
C8_EnumeratedOthers ==
    \A i \in 1..Len(transactions) :
        transactions[i].technician_type \in {Nails, Lashes, Others}

\* C8's case: the third option has been saved
C8_Witness ==
    \E i \in 1..Len(transactions) : transactions[i].technician_type = Others

\* C9: a store call that raises is caught in its handler and shown as a message;
\* no run ends in an uncaught exception.
C9_FailuresCaught ==
    ui.raised # {} =>
        /\ "uncaught exception" \notin ui.msgs
        /\ ui.msgs # {}

\* the technicians of the rows of a day, their totals, and the position at which
\* a technician first occurs in the snapshot
TechsOn(df, day) ==
    {df[i].technician_name : i \in {j \in 1..Len(df) : df[j].date_of_service = day}}
TotalOf(df, day, tech) ==
    SumAmount(SelectSeq(df, LAMBDA r : r.date_of_service = day
                                        /\ r.technician_name = tech))
FirstAt(df, tech) ==
    CHOOSE i \in 1..Len(df) :
        /\ df[i].technician_name = tech
        /\ \A j \in 1..(i - 1) : df[j].technician_name # tech

\* C10 as stated, over the runs that draw the KPI cards: the top technician has
\* the maximum total of the day and, among those who tie, comes first in the
\* snapshot; with no row of the day the cards show None, 0 and 0.
C10_TopTechFirstEncountered ==
    (ui.handler = "Reports & CSV" /\ ui.arg.cards # {}) =>
        LET df == view[ui.session]
            day == ui.arg.day
            techs == TechsOn(df, day)
            today_df == SelectSeq(df, LAMBDA r : r.date_of_service = day)
        IN \A k \in ui.arg.cards :
              /\ k.totalSales = SumAmount(today_df)
              /\ k.transactionCount = Len(today_df)
              /\ techs = {} => k.topTechnician = None
              /\ techs # {} =>
                    /\ k.topTechnician \in techs
                    /\ \A u \in techs :
                          /\ TotalOf(df, day, u) <= TotalOf(df, day, k.topTechnician)
                          /\ TotalOf(df, day, u) = TotalOf(df, day, k.topTechnician)
                                => FirstAt(today_df, k.topTechnician) <= FirstAt(today_df, u)

\* C10 as amended: for a non-empty snapshot one set of cards is drawn; the top
\* technician has the maximum total of the day and, among those who tie, the
\* smallest name in str order; with no row of the day the cards show None, 0 and
\* 0; for an empty snapshot no cards are drawn.
C10_TopTechSmallestName ==
    ui.handler = "Reports & CSV" =>
        LET df == view[ui.session]
            day == ui.arg.day
            techs == TechsOn(df, day)
            today_df == SelectSeq(df, LAMBDA r : r.date_of_service = day)
        IN /\ df = <<>> => ui.arg.cards = {}
           /\ df # <<>> => Cardinality(ui.arg.cards) = 1
           /\ \A k \in ui.arg.cards :
                 /\ k.totalSales = SumAmount(today_df)
                 /\ k.transactionCount = Len(today_df)
                 /\ techs = {} =>
                       k.topTechnician = None /\ k.totalSales = 0
                          /\ k.transactionCount = 0
                 /\ techs # {} =>
                       /\ k.topTechnician \in techs
                       /\ \A u \in techs :
                             /\ TotalOf(df, day, u) <= TotalOf(df, day, k.topTechnician)
                             /\ TotalOf(df, day, u) = TotalOf(df, day, k.topTechnician)
                                   => ~StrLess(u, k.topTechnician)

\* C10's case: two technicians tie for the day's maximum, the one with the greater
\* name comes first in the snapshot, and the cards name the other
C10_Witness ==
    /\ ui.handler = "Reports & CSV"
    /\ \E k \in ui.arg.cards :
          LET df == view[ui.session]
              today_df == SelectSeq(df, LAMBDA r : r.date_of_service = ui.arg.day)
          IN /\ Len(today_df) >= 2
             /\ today_df[1].technician_name = Mo
             /\ k.topTechnician = Liz
             /\ TotalOf(df, ui.arg.day, Mo) = TotalOf(df, ui.arg.day, Liz)

\* C11: the empty DataFrame of a failed select is written to the slot like any
\* other value, and while that entry is in the slot and younger than the window
\* every call that returns gets the empty DataFrame from the slot, with no select
\* run and the slot left as it is, whatever the store holds by then.
C11_FailedFetchCached ==
    [][/\ \A s \in Sessions :
             (pc[s] = "computing" /\ pc'[s] = "idle" /\ inflight[s].msgs # {})
                => (cache'.full /\ cache'.df = <<>> /\ cache'.age = 0)
       /\ (/\ cache.full /\ "Database error" \in cache.msgs /\ cache.age < 60
           /\ ui' # ui /\ ui'.handler \in Pages)
              => /\ ~ui'.target.fetched
                 /\ view'[ui'.session] = <<>>
                 /\ cache' = cache]_vars

\* C11's case: a page is served the empty DataFrame of a failed select from the
\* slot while the store holds a transaction
C11_Witness ==
    /\ ui.handler \in Pages
    /\ ui.target.full /\ ~ui.target.fetched
    /\ "Database error" \in ui.msgs
    /\ view[ui.session] = <<>>
    /\ transactions # <<>>

\* C12: a logged-in session keeps logged_in and its cashier in every step that is
\* not its own Logout, whatever is done to the cashier rows; a step that saves a
\* transaction appends exactly one row, and that row carries the cashier of the
\* session that submitted it, whether or not that cashier's row is still active
\* or still holds the password the session logged in with.
C12_SessionOutlivesRow ==
    [][/\ \A s \in Sessions :
             (logged_in[s] /\ ~(ui' # ui /\ ui'.handler = "Logout" /\ ui'.session = s))
                => (logged_in'[s] /\ cashier'[s] = cashier[s])
       /\ transactions' # transactions
             => /\ Len(transactions') = Len(transactions) + 1
                /\ SubSeq(transactions', 1, Len(transactions)) = transactions
                /\ ui'.handler = "Add Transaction"
                /\ logged_in[ui'.session]
                /\ transactions'[Len(transactions')].cashier_username
                      = cashier[ui'.session]
       /\ (/\ ui' # ui /\ ui'.handler = "Add Transaction"
           /\ "Transaction saved successfully!" \in ui'.msgs)
             => transactions' # transactions]_vars

\* C12's case: the last run saved a transaction for a session whose cashier's row
\* was inactive and no longer held the password the session logged in with
C12_Witness ==
    /\ ui.handler = "Add Transaction"
    /\ "Transaction saved successfully!" \in ui.msgs
    /\ transactions # <<>>
    /\ transactions[Len(transactions)].cashier_username = Bob
    /\ cashier[ui.session] = Bob
    /\ \E r \in cashiers :
          r.username = Bob /\ ~r.active /\ r.password = hash_password("pw1")

=============================================================================
